---- MODULE Spec2Model ----
(***************************************************************************)
(* A model of adbctool/gen.py: the command line of main, its validation,   *)
(* the parsing of the two list arguments with ast.literal_eval, and the    *)
(* calls of extract_dbc_meta and of the three generators.  The extractor,  *)
(* the generators and the generated codec are not part of gen.py; they are *)
(* modelled from the design document (sections 4.2 to 4.6) and are marked  *)
(* as such where they are defined.                                         *)
(***************************************************************************)
EXTENDS Integers, Sequences, FiniteSets, TLC

VARIABLES
    args,          \* the command line given to main (sys.argv[1:]), by option
    dbc,           \* the content of the DBC file named by --dbc_file
    pc,            \* the position of main
    parsed_args,   \* parser.parse_args(args[1:])
    black_list,    \* main's local black_list
    sender_list,   \* main's local sender_list
    extract_args,  \* the arguments extract_dbc_meta was called with
    calls,         \* the calls and returns of the four collaborators, in order
    out,           \* the lines printed to stdout and stderr, in order
    fs,            \* the files written: dbc.yml and the artifact directories
    exit_code,     \* the exit status of the process, None while it runs
    codec          \* one signal, one raw value and the frame of the generated codec

vars == <<args, dbc, pc, parsed_args, black_list, sender_list, extract_args,
          calls, out, fs, exit_code, codec>>

pipeline_vars == <<args, dbc, pc, parsed_args, black_list, sender_list,
                   extract_args, calls, out, fs, exit_code>>

(***************************************************************************)
(* Bounds of the model.                                                    *)
(***************************************************************************)
MaxTextLen == 3     \* tokens in a --black_list / --sender_list text
MaxPathLen == 2     \* characters in --output_dir and in --car_type
MaxSigLen == 3      \* bits in a signal of the generated codec
MsgBytes == 2       \* bytes in a CAN frame of the generated codec

(***************************************************************************)
(* Python values.  None and an optional value are the empty and the        *)
(* one-element sequence.  A path or a name given on the command line is a  *)
(* sequence of characters.                                                 *)
(***************************************************************************)
None == <<>>
Some(x) == <<x>>
Get(o) == o[1]

UpperCase == <<"A", "B", "C", "D", "E", "F", "G", "H", "I", "J", "K", "L", "M",
               "N", "O", "P", "Q", "R", "S", "T", "U", "V", "W", "X", "Y", "Z">>
LowerCase == <<"a", "b", "c", "d", "e", "f", "g", "h", "i", "j", "k", "l", "m",
               "n", "o", "p", "q", "r", "s", "t", "u", "v", "w", "x", "y", "z">>

\* str.lower(), character by character
lower(s) ==
    [i \in 1..Len(s) |->
        IF \E j \in 1..26 : UpperCase[j] = s[i]
        THEN LowerCase[CHOOSE j \in 1..26 : UpperCase[j] = s[i]]
        ELSE s[i]]

(***************************************************************************)
(* ast.literal_eval on a text given as its sequence of tokens: the         *)
(* brackets, the comma, quoted string literals and bare names.  A parse    *)
(* that fails is a SyntaxError; a parse that holds a name or a subscript   *)
(* is a ValueError; otherwise the value is a str, a list or a tuple.       *)
(***************************************************************************)
StrTokens == {"'0x10'", "'16'", "'REPORT'"}
NameTokens == {"MAB"}

StrValue(tok) ==
    CASE tok = "'0x10'" -> "0x10"
      [] tok = "'16'" -> "16"
      [] tok = "'REPORT'" -> "REPORT"

Node(kind, str, elts) == [k |-> kind, s |-> str, e |-> elts]
NoParse == [ok |-> FALSE, node |-> Node("none", <<>>, <<>>), rest |-> <<>>]
Parsed(node, rest) == [ok |-> TRUE, node |-> node, rest |-> rest]

\* adjacent string literals are one string
RECURSIVE StringRun(_)
StringRun(toks) ==
    IF toks # <<>> /\ Head(toks) \in StrTokens
    THEN <<StrValue(Head(toks))>> \o StringRun(Tail(toks))
    ELSE <<>>

RECURSIVE ParseExpr(_), ParseTrailers(_, _), ParseItems(_, _)

\* the elements of a list display or of a subscript, up to the closing bracket
ParseItems(toks, acc) ==
    IF toks = <<>> THEN NoParse
    ELSE IF Head(toks) = "]" THEN Parsed(Node("list", <<>>, acc), Tail(toks))
    ELSE LET x == ParseExpr(toks) IN
         IF ~x.ok \/ x.rest = <<>> THEN NoParse
         ELSE IF Head(x.rest) = ","
              THEN ParseItems(Tail(x.rest), Append(acc, x.node))
         ELSE IF Head(x.rest) = "]"
              THEN Parsed(Node("list", <<>>, Append(acc, x.node)), Tail(x.rest))
         ELSE NoParse

\* primary[slices]: a subscript needs at least one slice
ParseTrailers(node, toks) ==
    IF toks # <<>> /\ Head(toks) = "["
    THEN LET sl == ParseItems(Tail(toks), <<>>) IN
         IF ~sl.ok \/ sl.node.e = <<>> THEN NoParse
         ELSE ParseTrailers(Node("subscript", <<>>, <<node, sl.node>>), sl.rest)
    ELSE Parsed(node, toks)

ParseExpr(toks) ==
    IF toks = <<>> THEN NoParse
    ELSE IF Head(toks) \in StrTokens
         THEN LET run == StringRun(toks) IN
              ParseTrailers(Node("str", run, <<>>),
                            SubSeq(toks, Len(run) + 1, Len(toks)))
    ELSE IF Head(toks) \in NameTokens
         THEN ParseTrailers(Node("name", <<Head(toks)>>, <<>>), Tail(toks))
    ELSE IF Head(toks) = "["
         THEN LET items == ParseItems(Tail(toks), <<>>) IN
              IF ~items.ok THEN NoParse ELSE ParseTrailers(items.node, items.rest)
    ELSE NoParse

\* the whole text: one expression, or a tuple written with commas
RECURSIVE ParseTestlist(_, _)
ParseTestlist(toks, acc) ==
    IF toks = <<>>
    THEN IF acc = <<>> THEN NoParse ELSE Parsed(Node("tuple", <<>>, acc), <<>>)
    ELSE LET x == ParseExpr(toks) IN
         IF ~x.ok THEN NoParse
         ELSE IF x.rest = <<>>
              THEN IF acc = <<>> THEN x
                   ELSE Parsed(Node("tuple", <<>>, Append(acc, x.node)), <<>>)
         ELSE IF Head(x.rest) = ","
              THEN ParseTestlist(Tail(x.rest), Append(acc, x.node))
         ELSE NoParse

RECURSIVE IsLiteral(_)
IsLiteral(node) ==
    \/ node.k = "str"
    \/ /\ node.k \in {"list", "tuple"}
       /\ \A i \in 1..Len(node.e) : IsLiteral(node.e[i])

SyntaxError == Node("SyntaxError", <<>>, <<>>)
ValueError == Node("ValueError", <<>>, <<>>)
Unset == Node("unset", <<>>, <<>>)
EmptyList == Node("list", <<>>, <<>>)

literal_eval(text) ==
    LET p == ParseTestlist(text, <<>>) IN
    IF ~p.ok THEN SyntaxError
    ELSE IF ~IsLiteral(p.node) THEN ValueError
    ELSE p.node

IsError(v) == v.k \in {"SyntaxError", "ValueError"}

\* bool(v) of a str, a list or a tuple
Truthy(v) == IF v.k = "str" THEN v.s # <<>> ELSE v.e # <<>>

(***************************************************************************)
(* The strings main builds paths from, as sequences of characters.         *)
(***************************************************************************)
protocol_conf_file == <<"d", "b", "c", ".", "y", "m", "l">>
DefaultOutputDir == <<"o", "u", "t", "p", "u", "t", "/">>
DefaultBlackList == <<"[", "]">>
S_proto == <<"p", "r", "o", "t", "o", "/">>
S_vehicle == <<"v", "e", "h", "i", "c", "l", "e", "/">>
S_protocol == <<"/", "p", "r", "o", "t", "o", "c", "o", "l", "/">>
S_slash == <<"/">>

proto_dir(pa) == pa.output_dir \o S_proto
protocol_dir(pa) == pa.output_dir \o S_vehicle \o lower(pa.car_type) \o S_protocol
vehicle_dir(pa) == pa.output_dir \o S_vehicle \o lower(pa.car_type) \o S_slash

(***************************************************************************)
(* argparse: the options of main and their defaults.  args gives each      *)
(* option as None (absent from the command line) or Some(value).           *)
(***************************************************************************)
NoArgs == [dbc_file |-> <<>>, car_type |-> <<>>, sender |-> None,
           sender_list |-> None, black_list |-> <<>>, output_dir |-> <<>>]

RequiredGiven(a) == a.dbc_file # None /\ a.car_type # None

parse_args(a) ==
    [dbc_file |-> Get(a.dbc_file),
     car_type |-> Get(a.car_type),
     sender |-> a.sender,
     sender_list |-> a.sender_list,
     black_list |-> IF a.black_list = None THEN DefaultBlackList ELSE Get(a.black_list),
     output_dir |-> IF a.output_dir = None THEN DefaultOutputDir ELSE Get(a.output_dir)]

\* the condition of the validation at the head of main
NoControlSource(pa) == pa.sender = None /\ pa.sender_list = None

\* ast.literal_eval(parsed_args.sender_list) if parsed_args.sender_list else []
EvalSenderList(pa) ==
    IF pa.sender_list # None /\ Get(pa.sender_list) # <<>>
    THEN literal_eval(Get(pa.sender_list))
    ELSE EmptyList

EvalBlackList(pa) == literal_eval(pa.black_list)


\* a slip: black_list and sender_list passed in each other's position
ExtractArgsSwapped(pa, bl, sl) ==
    [dbc_file |-> pa.dbc_file, out_file |-> protocol_conf_file,
     car_type |-> pa.car_type, black_list |-> sl, sender_list |-> bl,
     sender |-> pa.sender]

\* the arguments main passes to extract_dbc_meta
ExtractArgs(pa, bl, sl) ==
    [dbc_file |-> pa.dbc_file, out_file |-> protocol_conf_file,
     car_type |-> pa.car_type, black_list |-> bl, sender_list |-> sl,
     sender |-> pa.sender]

(***************************************************************************)
(* The extractor and the generators, from the design document: the         *)
(* blacklist filter and the classification of section 4.2, the model file  *)
(* of section 4.3, one artifact set per generator (sections 4.4 to 4.6).   *)
(***************************************************************************)
Msg(id, name, sender) == [id |-> id, name |-> name, sender |-> sender]
Universe == {Msg(16, "CONTROL_CMD", <<"M", "A", "B">>),
             Msg(32, "REPORT", <<"V", "C", "U">>),
             Msg(48, "STATUS", <<"M", "A", "B">>)}

\* the entries of a list or tuple value that are strings; the elements of a
\* str are its characters, and no name or id of the model is one character
Entries(v) ==
    IF v.k \in {"list", "tuple"}
    THEN {v.e[i].s : i \in {j \in 1..Len(v.e) : v.e[j].k = "str"}}
    ELSE {}

\* an id token in decimal or hexadecimal form, as the integer it denotes
IdOf(entry) ==
    IF entry = <<"0x10">> \/ entry = <<"16">> THEN Some(16) ELSE None

Matches(m, entry) == entry = <<m.name>> \/ IdOf(entry) = Some(m.id)

Blacklisted(m, bl) == \E e \in Entries(bl) : Matches(m, e)

ClassificationMode(sl, sender) ==
    IF Truthy(sl) THEN "id_list"
    ELSE IF sender # None THEN "sender"
    ELSE "none"

IsControl(m, sl, sender) ==
    CASE ClassificationMode(sl, sender) = "id_list" ->
            \E e \in Entries(sl) : IdOf(e) = Some(m.id)
      [] ClassificationMode(sl, sender) = "sender" -> sender = Some(m.sender)
      [] OTHER -> FALSE

ProtocolModel(raw, a) ==
    [car_type |-> a.car_type,
     messages |-> {[id |-> m.id, name |-> m.name, sender |-> m.sender,
                    is_control |-> IsControl(m, a.sender_list, a.sender)] :
                   m \in {r \in raw.messages : ~Blacklisted(r, a.black_list)}}]

\* extraction fails on a DBC text with a syntax or schema error
ExtractionOk(raw) == raw.wellformed

Generators == {"gen_proto_file", "gen_protocols", "gen_vehicle_controller_and_manager"}

\* what a generator emits for the model it loads: per message, its decode
\* path or record, and an encode path for a control message (codec, dispatch)
Emit(g, model) ==
    {[id |-> m.id, name |-> m.name,
      encode |-> (g # "gen_proto_file" /\ m.is_control)] : m \in model.messages}
(***************************************************************************)
(* The state before main runs, and the steps of main.                      *)
(***************************************************************************)
Line(stream, text) == [to |-> stream, text |-> text]
Event(ev, fn, ok, dir) == [ev |-> ev, fn |-> fn, ok |-> ok, dir |-> dir]
Last(seq) == seq[Len(seq)]

NoCodec == [step |-> "off"]

Begin ==
    /\ pc = "parse_args"
    /\ parsed_args = NoArgs
    /\ black_list = Unset
    /\ sender_list = Unset
    /\ extract_args = None
    /\ calls = <<>>
    /\ out = <<>>
    /\ fs = [model |-> None, dirs |-> {}]
    /\ exit_code = None

\* parser.parse_args: a required option is missing
ParseArgsError ==
    /\ pc = "parse_args"
    /\ ~RequiredGiven(args)
    /\ out' = Append(out, Line("stderr", "error: the following arguments are required"))
    /\ exit_code' = Some(2)
    /\ pc' = "exit"
    /\ UNCHANGED <<args, dbc, parsed_args, black_list, sender_list, extract_args,
                   calls, fs, codec>>

ParseArgs ==
    /\ pc = "parse_args"
    /\ RequiredGiven(args)
    /\ parsed_args' = parse_args(args)
    /\ pc' = "validate"
    /\ UNCHANGED <<args, dbc, black_list, sender_list, extract_args, calls, out,
                   fs, exit_code, codec>>


\* a slip: the missing control source is printed but the run goes on
ValidateErrorWarnsOnly ==
    /\ pc = "validate"
    /\ NoControlSource(parsed_args)
    /\ out' = Append(out, Line("stderr", "error: You must define the source of control messages"))
    /\ pc' = "parse_lists"
    /\ UNCHANGED <<args, dbc, parsed_args, black_list, sender_list, extract_args,
                   calls, fs, exit_code, codec>>

\* parser.error: neither --sender nor --sender_list
ValidateError ==
    /\ pc = "validate"
    /\ NoControlSource(parsed_args)
    /\ out' = Append(out, Line("stderr", "error: You must define the source of control messages"))
    /\ exit_code' = Some(2)
    /\ pc' = "exit"
    /\ UNCHANGED <<args, dbc, parsed_args, black_list, sender_list, extract_args,
                   calls, fs, codec>>

Validate ==
    /\ pc = "validate"
    /\ ~NoControlSource(parsed_args)
    /\ pc' = "parse_lists"
    /\ UNCHANGED <<args, dbc, parsed_args, black_list, sender_list, extract_args,
                   calls, out, fs, exit_code, codec>>

\* the except clause: black_list is evaluated first, then sender_list
ParseListsError ==
    /\ pc = "parse_lists"
    /\ IsError(EvalBlackList(parsed_args)) \/ IsError(EvalSenderList(parsed_args))
    /\ black_list' = IF IsError(EvalBlackList(parsed_args)) THEN Unset
                     ELSE EvalBlackList(parsed_args)
    /\ out' = out \o <<Line("stderr", "Error: Invalid list format"),
                       Line("stderr", "Details")>>
    /\ exit_code' = Some(1)
    /\ pc' = "exit"
    /\ UNCHANGED <<args, dbc, parsed_args, sender_list, extract_args, calls, fs,
                   codec>>

ParseLists ==
    /\ pc = "parse_lists"
    /\ ~IsError(EvalBlackList(parsed_args))
    /\ ~IsError(EvalSenderList(parsed_args))
    /\ black_list' = EvalBlackList(parsed_args)
    /\ sender_list' = EvalSenderList(parsed_args)
    /\ pc' = "extract"
    /\ UNCHANGED <<args, dbc, parsed_args, extract_args, calls, out, fs,
                   exit_code, codec>>

\* the call of extract_dbc_meta
StartExtract ==
    /\ pc = "extract"
    /\ out' = Append(out, Line("stdout", "Starting vehicle protocol generation..."))
    /\ extract_args' = Some(ExtractArgs(parsed_args, black_list, sender_list))
    /\ calls' = Append(calls, Event("call", "extract_dbc_meta", TRUE, <<>>))
    /\ pc' = "in_extract"
    /\ UNCHANGED <<args, dbc, parsed_args, black_list, sender_list, fs,
                   exit_code, codec>>

\* extract_dbc_meta returns a true value: the model file is written
ExtractReturnsTrue ==
    /\ pc = "in_extract"
    /\ ExtractionOk(dbc)
    /\ fs' = [fs EXCEPT !.model = Some(ProtocolModel(dbc, Get(extract_args)))]
    /\ calls' = Append(calls, Event("return", "extract_dbc_meta", TRUE, <<>>))
    /\ pc' = "gen_proto_file"
    /\ UNCHANGED <<args, dbc, parsed_args, black_list, sender_list, extract_args,
                   out, exit_code, codec>>


\* a slip: the failure branch prints but does not return
ExtractReturnsFalseNoReturn ==
    /\ pc = "in_extract"
    /\ ~ExtractionOk(dbc)
    /\ calls' = Append(calls, Event("return", "extract_dbc_meta", FALSE, <<>>))
    /\ out' = Append(out, Line("stderr", "Failed to extract DBC meta information."))
    /\ pc' = "gen_proto_file"
    /\ UNCHANGED <<args, dbc, parsed_args, black_list, sender_list, extract_args,
                   fs, exit_code, codec>>

\* extract_dbc_meta returns a false value: main prints and returns
ExtractReturnsFalse ==
    /\ pc = "in_extract"
    /\ ~ExtractionOk(dbc)
    /\ calls' = Append(calls, Event("return", "extract_dbc_meta", FALSE, <<>>))
    /\ out' = Append(out, Line("stderr", "Failed to extract DBC meta information."))
    /\ exit_code' = Some(0)
    /\ pc' = "done"
    /\ UNCHANGED <<args, dbc, parsed_args, black_list, sender_list, extract_args,
                   fs, codec>>

\* main calls generator g with the model file and the directory dir
CallGenerator(g, dir, at, inside) ==
    /\ pc = at
    /\ calls' = Append(calls, Event("call", g, TRUE, dir))
    /\ pc' = inside
    /\ UNCHANGED <<args, dbc, parsed_args, black_list, sender_list, extract_args,
                   out, fs, exit_code, codec>>

\* g returns after writing its artifacts into the directory it was given
GeneratorReturns(g, inside, next) ==
    /\ pc = inside
    /\ fs' = [fs EXCEPT !.dirs = @ \cup {[dir |-> Last(calls).dir, by |-> g,
                                          msgs |-> Emit(g, Get(fs.model))]}]
    /\ calls' = Append(calls, Event("return", g, TRUE, Last(calls).dir))
    /\ pc' = next
    /\ UNCHANGED <<args, dbc, parsed_args, black_list, sender_list, extract_args,
                   out, exit_code, codec>>


\* a slip: a handler that removes the output tree when a generator raises
GeneratorRaisesCleansUp(g, inside) ==
    /\ pc = inside
    /\ calls' = Append(calls, Event("raise", g, FALSE, Last(calls).dir))
    /\ out' = Append(out, Line("stderr", "Traceback (most recent call last)"))
    /\ fs' = [fs EXCEPT !.dirs = {}]
    /\ exit_code' = Some(1)
    /\ pc' = "exit"
    /\ UNCHANGED <<args, dbc, parsed_args, black_list, sender_list, extract_args,
                   codec>>

\* g raises an I/O error: main has no handler, the process ends with a traceback
GeneratorRaises(g, inside) ==
    /\ pc = inside
    /\ calls' = Append(calls, Event("raise", g, FALSE, Last(calls).dir))
    /\ out' = Append(out, Line("stderr", "Traceback (most recent call last)"))
    /\ exit_code' = Some(1)
    /\ pc' = "exit"
    /\ UNCHANGED <<args, dbc, parsed_args, black_list, sender_list, extract_args,
                   fs, codec>>

\* g meets an I/O error, gives up its own output and returns
GeneratorAborts(g, inside, next) ==
    /\ pc = inside
    /\ calls' = Append(calls, Event("return", g, FALSE, Last(calls).dir))
    /\ out' = Append(out, Line("stderr", "I/O error"))
    /\ pc' = next
    /\ UNCHANGED <<args, dbc, parsed_args, black_list, sender_list, extract_args,
                   fs, exit_code, codec>>

CallGenProtoFile ==
    CallGenerator("gen_proto_file", proto_dir(parsed_args),
                  "gen_proto_file", "in_gen_proto_file")

\* a slip: the dispatch generator is called right after the schema generator
GenProtoFileReturnsSkipsCodec ==
    GeneratorReturns("gen_proto_file", "in_gen_proto_file", "gen_vehicle")

GenProtoFileReturns ==
    GeneratorReturns("gen_proto_file", "in_gen_proto_file", "gen_protocols")
GenProtoFileRaises == GeneratorRaises("gen_proto_file", "in_gen_proto_file")
GenProtoFileAborts ==
    GeneratorAborts("gen_proto_file", "in_gen_proto_file", "gen_protocols")

CallGenProtocols ==
    CallGenerator("gen_protocols", protocol_dir(parsed_args),
                  "gen_protocols", "in_gen_protocols")
GenProtocolsReturns ==
    GeneratorReturns("gen_protocols", "in_gen_protocols", "gen_vehicle")
GenProtocolsRaises == GeneratorRaises("gen_protocols", "in_gen_protocols")
GenProtocolsAborts ==
    GeneratorAborts("gen_protocols", "in_gen_protocols", "gen_vehicle")

CallGenVehicle ==
    CallGenerator("gen_vehicle_controller_and_manager", vehicle_dir(parsed_args),
                  "gen_vehicle", "in_gen_vehicle")
GenVehicleReturns ==
    GeneratorReturns("gen_vehicle_controller_and_manager", "in_gen_vehicle", "complete")
GenVehicleRaises ==
    GeneratorRaises("gen_vehicle_controller_and_manager", "in_gen_vehicle")
GenVehicleAborts ==
    GeneratorAborts("gen_vehicle_controller_and_manager", "in_gen_vehicle", "complete")

\* the two closing prints; main returns
PrintComplete ==
    /\ pc = "complete"
    /\ out' = out \o <<Line("stdout", "Vehicle protocol generation complete!"),
                       Line("stdout", "Files saved in")>>
    /\ exit_code' = Some(0)
    /\ pc' = "done"
    /\ UNCHANGED <<args, dbc, parsed_args, black_list, sender_list, extract_args,
                   calls, fs, codec>>

Next ==
    \/ ParseArgsError
    \/ ParseArgs
    \/ ValidateError
    \/ Validate
    \/ ParseListsError
    \/ ParseLists
    \/ StartExtract
    \/ ExtractReturnsTrue
    \/ ExtractReturnsFalse
    \/ CallGenProtoFile
    \/ GenProtoFileReturns
    \/ GenProtoFileRaises
    \/ GenProtoFileAborts
    \/ CallGenProtocols
    \/ GenProtocolsReturns
    \/ GenProtocolsRaises
    \/ GenProtocolsAborts
    \/ CallGenVehicle
    \/ GenVehicleReturns
    \/ GenVehicleRaises
    \/ GenVehicleAborts
    \/ PrintComplete

(***************************************************************************)
(* The command lines and DBC files of the three specifications.            *)
(***************************************************************************)
DbcPath == <<"a", ".", "d", "b", "c">>
CarMKZ == <<"M", "K", "Z">>
WideTokens == {"[", "]", ",", "'0x10'", "MAB"}
Texts(n) == UNION {[1..k -> WideTokens] : k \in 0..n}
SampleTexts ==
    {<<>>,
     <<"[", "]">>,
     <<"[", "'0x10'", "]">>,
     <<"[", "'REPORT'", "]">>,
     <<"[", "'16'", ",", "'REPORT'", "]">>,
     <<"'0x10'">>,
     <<"[", "MAB", "]">>}
Opts(S) == {None} \cup {Some(x) : x \in S}
Senders == {<<"M", "A", "B">>, <<"V", "C", "U">>}

ArgsOf(f, t, s, sl, bl, o) ==
    [dbc_file |-> f, car_type |-> t, sender |-> s, sender_list |-> sl,
     black_list |-> bl, output_dir |-> o]

MissingRequired ==
    {ArgsOf(None, Some(CarMKZ), None, None, None, None),
     ArgsOf(Some(DbcPath), None, Some(<<"M", "A", "B">>), None, None, None)}

\* every text of at most MaxTextLen tokens for one list option, a sample for the other
ArgsWideTexts ==
    LET W == {Some(x) : x \in Texts(MaxTextLen)}
        S == Opts(SampleTexts)
    IN  {ArgsOf(Some(DbcPath), Some(CarMKZ), s, p[1], p[2], None) :
            s \in Opts({<<"M", "A", "B">>}), p \in (W \X S) \cup (S \X W)}

Init ==
    /\ args \in ArgsWideTexts \cup MissingRequired
    /\ dbc \in {[wellformed |-> w, messages |-> Universe] : w \in BOOLEAN}
    /\ codec = NoCodec
    /\ Begin

Spec == Init /\ [][Next]_vars
\* every DBC file over the message universe, the list options from the samples
ArgsSampleTexts ==
    {ArgsOf(Some(DbcPath), Some(CarMKZ), s, sl, bl, None) :
        s \in Opts(Senders), sl \in Opts(SampleTexts), bl \in Opts(SampleTexts)}

InitData ==
    /\ args \in ArgsSampleTexts \cup MissingRequired
    /\ dbc \in {[wellformed |-> w, messages |-> ms] :
                   w \in BOOLEAN, ms \in SUBSET Universe}
    /\ codec = NoCodec
    /\ Begin

SpecData == InitData /\ [][Next]_vars

\* every output directory and car type of at most MaxPathLen characters
Strings(chars, n) == UNION {[1..k -> chars] : k \in 0..n}

ArgsWidePaths ==
    {ArgsOf(Some(DbcPath), Some(t), s, sl, None, o) :
        t \in Strings({"K", "z", "/"}, MaxPathLen),
        o \in Opts(Strings({"o", "/"}, MaxPathLen)),
        s \in Opts({<<"M", "A", "B">>}),
        sl \in {None, Some(<<"[", "'0x10'", "]">>), Some(<<"[">>)}}

InitPaths ==
    /\ args \in ArgsWidePaths \cup MissingRequired
    /\ dbc \in {[wellformed |-> w, messages |-> Universe] : w \in BOOLEAN}
    /\ codec = NoCodec
    /\ Begin

SpecPaths == InitPaths /\ [][Next]_vars

(***************************************************************************)
(* The bit packing of the generated codec, from section 4.5 of the design  *)
(* document.  A frame is a function from bit positions to bits, position   *)
(* 8 * byte + bit with bit 0 the least significant bit of its byte.        *)
(***************************************************************************)
FrameBits == 8 * MsgBytes

RECURSIVE Pow2(_)
Pow2(n) == IF n = 0 THEN 1 ELSE 2 * Pow2(n - 1)

\* the position after pos in big-endian (Motorola) numbering, towards the
\* least significant bit: down within a byte, then bit 7 of the next byte
NextBigEndian(pos) == IF pos % 8 = 0 THEN pos + 15 ELSE pos - 1

RECURSIVE BigEndianRun(_, _)
BigEndianRun(pos, n) ==
    IF n = 0 THEN <<>> ELSE <<pos>> \o BigEndianRun(NextBigEndian(pos), n - 1)

\* the positions of the signal's bits, least significant first
BitPositions(sig) ==
    IF sig.order = "little"
    THEN [i \in 1..sig.length |-> sig.start + i - 1]
    ELSE LET run == BigEndianRun(sig.start, sig.length)
         IN  [i \in 1..sig.length |-> run[sig.length + 1 - i]]

\* the invariant of a Signal: its bits lie within the message
Fits(sig) == \A i \in 1..sig.length : BitPositions(sig)[i] \in 0..(FrameBits - 1)

RawRange(sig) ==
    IF sig.signed
    THEN (0 - Pow2(sig.length - 1))..(Pow2(sig.length - 1) - 1)
    ELSE 0..(Pow2(sig.length) - 1)

\* bit i (0 the least significant) of the two's complement pattern of r
PatternBit(r, sig, i) == ((r % Pow2(sig.length)) \div Pow2(i)) % 2

encode_bits(r, sig, frame) ==
    LET pos == BitPositions(sig) IN
    [b \in 0..(FrameBits - 1) |->
        IF \E i \in 1..sig.length : pos[i] = b
        THEN PatternBit(r, sig, (CHOOSE i \in 1..sig.length : pos[i] = b) - 1)
        ELSE frame[b]]

RECURSIVE SumBits(_, _, _)
SumBits(frame, pos, i) ==
    IF i = 0 THEN 0 ELSE frame[pos[i]] * Pow2(i - 1) + SumBits(frame, pos, i - 1)


\* a slip: the sign flag is ignored
decode_unsigned(frame, sig) == SumBits(frame, BitPositions(sig), sig.length)

decode(frame, sig) ==
    LET u == SumBits(frame, BitPositions(sig), sig.length) IN
    IF sig.signed /\ u >= Pow2(sig.length - 1) THEN u - Pow2(sig.length) ELSE u

Signals ==
    {sig \in [start : 0..(FrameBits - 1), length : 1..MaxSigLen,
              order : {"little", "big"}, signed : BOOLEAN] : Fits(sig)}

InitCodec ==
    /\ args = ArgsOf(Some(DbcPath), Some(CarMKZ), Some(<<"M", "A", "B">>), None, None, None)
    /\ dbc = [wellformed |-> TRUE, messages |-> Universe]
    /\ Begin
    /\ \E sig \in Signals : \E r \in RawRange(sig) : \E fill \in {0, 1} :
          codec = [step |-> "signal", sig |-> sig, raw |-> r,
                   frame |-> [b \in 0..(FrameBits - 1) |-> fill], decoded |-> 0]

\* the encode path of a control message packs the raw value into the frame
Encode ==
    /\ codec.step = "signal"
    /\ codec' = [codec EXCEPT !.step = "encoded",
                              !.frame = encode_bits(codec.raw, codec.sig, codec.frame)]
    /\ UNCHANGED pipeline_vars

\* the decode path unpacks the raw value from the frame
Decode ==
    /\ codec.step = "encoded"
    /\ codec' = [codec EXCEPT !.step = "decoded",
                              !.decoded = decode(codec.frame, codec.sig)]
    /\ UNCHANGED pipeline_vars

NextCodec == Encode \/ Decode

SpecCodec == InitCodec /\ [][NextCodec]_vars
(***************************************************************************)
(* What the claims speak of.                                               *)
(***************************************************************************)
Printed(stream, text) == \E i \in 1..Len(out) : out[i] = Line(stream, text)
GeneratorCalled == \E i \in 1..Len(calls) : calls[i].fn \in Generators
ExtractCalled == \E i \in 1..Len(calls) : calls[i].fn = "extract_dbc_meta"
ExtractReportedFailure ==
    \E i \in 1..Len(calls) : calls[i] = Event("return", "extract_dbc_meta", FALSE, <<>>)
Completed(g) ==
    \E i \in 1..Len(calls) : calls[i].ev = "return" /\ calls[i].fn = g /\ calls[i].ok
Failed(g) ==
    \E i \in 1..Len(calls) : calls[i].fn = g /\ calls[i].ev \in {"return", "raise"}
                             /\ ~calls[i].ok
Terminated == pc \in {"exit", "done"}

\* C1: when extract_dbc_meta reports failure, main prints the diagnostic and
\* stops: no generator is ever called and no artifact directory exists.
C1_FailedExtractionStops ==
    ExtractReportedFailure =>
        /\ pc = "done"
        /\ Printed("stderr", "Failed to extract DBC meta information.")
        /\ ~GeneratorCalled
        /\ fs.dirs = {}

C1_Witness ==
    /\ ExtractReportedFailure
    /\ pc = "done"
    /\ dbc.messages # {}

\* C2: with neither --sender nor --sender_list the run ends in the
\* configuration error (exit status 2) before any list is parsed and before
\* extract_dbc_meta or a generator is called.
C2_NoControlSourceIsConfigurationError ==
    (args.sender = None /\ args.sender_list = None) =>
        /\ pc \in {"parse_args", "validate", "exit"}
        /\ calls = <<>>
        /\ extract_args = None
        /\ black_list = Unset /\ sender_list = Unset
        /\ pc = "exit" => exit_code = Some(2)

C2_Witness ==
    /\ RequiredGiven(args)
    /\ args.sender = None /\ args.sender_list = None
    /\ args.black_list # None
    /\ pc = "exit"
    /\ Printed("stderr", "error: You must define the source of control messages")

\* C3: when both --sender and --sender_list are supplied, a message of the
\* model is a control message exactly when its id is in the id list; the
\* sender name plays no part.
C3_IdListPreferredOverSender ==
    (args.sender # None /\ args.sender_list # None /\ fs.model # None) =>
        \A m \in Get(fs.model).messages :
            m.is_control <=> \E e \in Entries(sender_list) : IdOf(e) = Some(m.id)

(***************************************************************************)
(* Paths as the file system reads them: whether absolute, and the          *)
(* non-empty components between separators.                                *)
(***************************************************************************)
RECURSIVE Components(_, _)
Components(path, cur) ==
    IF path = <<>> THEN (IF cur = <<>> THEN <<>> ELSE <<cur>>)
    ELSE IF Head(path) = "/"
         THEN (IF cur = <<>> THEN <<>> ELSE <<cur>>) \o Components(Tail(path), <<>>)
         ELSE Components(Tail(path), Append(cur, Head(path)))

Norm(path) ==
    [abs |-> (path # <<>> /\ Head(path) = "/"), parts |-> Components(path, <<>>)]

\* <root>/<rest>, the root directory "" being the current directory
Under(root, rest) == IF root = <<>> THEN rest ELSE root \o <<"/">> \o rest

IsPrefix(p, q) == Len(p) <= Len(q) /\ SubSeq(q, 1, Len(p)) = p

DirGiven(g) == (CHOOSE i \in 1..Len(calls) : calls[i].ev = "call" /\ calls[i].fn = g)
GivenTo(g) == calls[DirGiven(g)].dir
WasCalled(g) == \E i \in 1..Len(calls) : calls[i].ev = "call" /\ calls[i].fn = g

\* C4: gen_protocols is given <output_root>/vehicle/<car_type lowercased>/protocol/,
\* gen_vehicle_controller_and_manager is given
\* <output_root>/vehicle/<car_type lowercased>/, the first lies directly under
\* the second, and each generator's directory lies under the output root.
C4_DirectoriesUnderOutputRoot ==
    LET root == parsed_args.output_dir
        car == lower(parsed_args.car_type)
        S_v == <<"v", "e", "h", "i", "c", "l", "e">>
        S_p == <<"p", "r", "o", "t", "o", "c", "o", "l">>
        codec_g == "gen_protocols"
        dispatch_g == "gen_vehicle_controller_and_manager"
    IN  /\ WasCalled(codec_g) =>
              Norm(GivenTo(codec_g)) =
                  Norm(Under(root, S_v \o <<"/">> \o car \o <<"/">> \o S_p \o <<"/">>))
        /\ WasCalled(dispatch_g) =>
              /\ Norm(GivenTo(dispatch_g)) =
                     Norm(Under(root, S_v \o <<"/">> \o car \o <<"/">>))
              /\ Norm(GivenTo(codec_g)).parts =
                     Append(Norm(GivenTo(dispatch_g)).parts, S_p)
        /\ \A g \in Generators : WasCalled(g) =>
              /\ Norm(GivenTo(g)).abs = Norm(Under(root, <<"x">>)).abs
              /\ IsPrefix(Norm(root).parts, Norm(GivenTo(g)).parts)

\* a list whose elements are all strings: a list of name or id tokens
IsTokenList(v) == v.k = "list" /\ \A i \in 1..Len(v.e) : v.e[i].k = "str"

InvalidListOption ==
    /\ RequiredGiven(args)
    /\ \/ ~IsTokenList(literal_eval(parse_args(args).black_list))
       \/ /\ args.sender_list # None
          /\ ~IsTokenList(literal_eval(Get(args.sender_list)))

\* C5: a --black_list or --sender_list text that is not a list of name or id
\* tokens ends the run with an error status, and extract_dbc_meta is never
\* called with a value that is not such a list.
C5_InvalidListIsFatal ==
    /\ InvalidListOption =>
          /\ ~ExtractCalled
          /\ Terminated => exit_code \in {Some(1), Some(2)}
    /\ extract_args # None =>
          /\ IsTokenList(Get(extract_args).black_list)
          /\ IsTokenList(Get(extract_args).sender_list)

\* C6: in every artifact set written, no message named in the blacklist (by
\* name or by id) appears, and every other message of the DBC file appears
\* exactly as it does when the blacklist is empty.
C6_BlacklistCompleteness ==
    \A d \in fs.dirs :
        LET named(m) == Blacklisted(m, EvalBlackList(parsed_args))
            unfiltered ==
                Emit(d.by, ProtocolModel(dbc,
                    [car_type |-> parsed_args.car_type, black_list |-> EmptyList,
                     sender_list |-> EvalSenderList(parsed_args),
                     sender |-> parsed_args.sender]))
        IN  \A m \in dbc.messages :
                IF named(m)
                THEN \A a \in d.msgs : a.id # m.id /\ a.name # m.name
                ELSE {a \in d.msgs : a.id = m.id} = {a \in unfiltered : a.id = m.id}
                     /\ \E a \in d.msgs : a.id = m.id

C6_Witness ==
    /\ pc = "done"
    /\ Cardinality(fs.dirs) = 3
    /\ \E m \in dbc.messages : Blacklisted(m, black_list)
    /\ \E m \in dbc.messages : ~Blacklisted(m, black_list)
    /\ \E d \in fs.dirs : \E a \in d.msgs : a.encode

\* C7: after a generator has failed with an I/O error, every generator that
\* had completed before still has its artifacts, in the directory it was
\* given and as it wrote them.
C7_CompletedSiblingsIntact ==
    (\E f \in Generators : Failed(f)) =>
        \A g \in Generators : Completed(g) =>
            \E d \in fs.dirs :
                /\ d.by = g
                /\ d.dir = GivenTo(g)
                /\ d.msgs = Emit(g, Get(fs.model))

C7_Witness ==
    /\ pc = "exit"
    /\ Failed("gen_protocols")
    /\ Completed("gen_proto_file")
    /\ \E d \in fs.dirs : d.by = "gen_proto_file" /\ d.msgs # {}

\* C8: decoding the frame into which the raw value r of a signal was encoded
\* yields r, for every signal that fits its message and every r in its range.
C8_BitPackingRoundTrip ==
    codec.step = "decoded" => codec.decoded = codec.raw

C8_Witness ==
    /\ codec.step = "decoded"
    /\ codec.sig.order = "big" /\ codec.sig.signed /\ codec.raw < 0
    /\ \E i, j \in 1..codec.sig.length :
          BitPositions(codec.sig)[i] \div 8 # BitPositions(codec.sig)[j] \div 8
    /\ \E b \in 0..(FrameBits - 1) : codec.frame[b] = 1
    /\ \E b \in 0..(FrameBits - 1) : codec.frame[b] = 0

ExpectedOrder ==
    <<"extract_dbc_meta", "extract_dbc_meta", "gen_proto_file", "gen_proto_file",
      "gen_protocols", "gen_protocols", "gen_vehicle_controller_and_manager",
      "gen_vehicle_controller_and_manager">>

\* C9: the collaborators are called one at a time in the order extractor,
\* schema, codec, dispatch; a generator starts only after the extractor has
\* returned true (the model file written) and after the generator before it
\* has returned; the completion message follows the return of all three.
C9_StrictlyOrderedPipeline ==
    /\ Len(calls) <= Len(ExpectedOrder)
    /\ \A i \in 1..Len(calls) :
          /\ calls[i].fn = ExpectedOrder[i]
          /\ calls[i].ev = "call" <=> i % 2 = 1
          /\ (calls[i].ev = "call" /\ i > 1) => calls[i - 1].ev = "return"
    /\ GeneratorCalled =>
          /\ calls[2] = Event("return", "extract_dbc_meta", TRUE, <<>>)
          /\ fs.model # None
    /\ Printed("stdout", "Vehicle protocol generation complete!") =>
          /\ Len(calls) = Len(ExpectedOrder)
          /\ Last(calls).ev = "return"

C9_Witness ==
    /\ pc = "done"
    /\ Printed("stdout", "Vehicle protocol generation complete!")
    /\ \A g \in Generators : Completed(g)

\* C10: extract_dbc_meta is never called with both no sender name and an
\* empty id list.
C10_OneClassificationModeActive ==
    extract_args # None =>
        ~(Get(extract_args).sender = None /\ Get(extract_args).sender_list = EmptyList)
====
